---- MODULE Spec2Model ----
(***************************************************************************)
(* A model of radrecord/rad_record.py: the RadRecord named tuple, its      *)
(* constructor rad_record, the validator is_valid, the list parser         *)
(* parse_delimited_list, the coercion convert_boolean and the three        *)
(* conversions convert_category_name, convert_population_names and         *)
(* normalize_record.                                                       *)
(*                                                                         *)
(* The library is a set of pure functions over immutable values, so the    *)
(* state is that of a caller: the value it started from, the argument and  *)
(* the result of its latest call, and the calls it has made.               *)
(*                                                                         *)
(* Python values are tagged records.  A text is a sequence of one-         *)
(* character strings, so that trimming, splitting, lowercasing and date    *)
(* parsing are computed character by character.  The module is Python 2    *)
(* code (it names the builtin `unicode`), so a text is either a byte       *)
(* string (kind "str") or a unicode string (kind "unicode").               *)
(***************************************************************************)
EXTENDS Integers, Sequences, FiniteSets, TLC

VARIABLES
    orig,   \* the value the caller started from
    prev,   \* the argument of the latest call, as it is after the call
    cur,    \* the value the latest call returned (orig before any call)
    hist    \* the names of the calls made so far, oldest first

vars == <<orig, prev, cur, hist>>

(***************************************************************************)
(* Bounds of the model.                                                    *)
(***************************************************************************)
\* Longest text, enumerated character by character, handed to
\* parse_delimited_list or to convert_boolean.
MaxLen == 4
\* Most conversions chained on one record.
MaxOps == 2
\* Most optional named arguments in one call of rad_record.
MaxArgs == 2

(***************************************************************************)
(* Python values.                                                          *)
(***************************************************************************)
None == [kind |-> "none"]
PyBool(b) == [kind |-> "bool", b |-> b]
PyInt(n) == [kind |-> "int", n |-> n]
\* A float, held as its number of tenths: PyFloat(10) is 1.0.
PyFloat(t) == [kind |-> "float", tenths |-> t]
PyStr(s) == [kind |-> "str", s |-> s]
PyUnicode(s) == [kind |-> "unicode", s |-> s]
PyList(l) == [kind |-> "list", items |-> l]
\* A value of any other type (an object, a dict, ...).
PyOther == [kind |-> "other"]
\* A call that does not return: the exception it raises.
Raise(e) == [kind |-> "raise", exc |-> e]

True == PyBool(TRUE)
False == PyBool(FALSE)

IsText(v) == v.kind \in {"str", "unicode"}

Range(f) == {f[i] : i \in DOMAIN f}

(***************************************************************************)
(* Text primitives: str.isspace, str.strip, str.split, str.lower.          *)
(***************************************************************************)
\* The characters isspace and strip treat as whitespace (those the model uses).
Whitespace == {" ", "\t"}

\* str.isspace(): at least one character, and all of them whitespace.
isspace(s) == Len(s) > 0 /\ \A i \in 1..Len(s) : s[i] \in Whitespace

RECURSIVE lstrip(_)
lstrip(s) ==
    IF s # <<>> /\ Head(s) \in Whitespace THEN lstrip(Tail(s)) ELSE s

RECURSIVE rstrip(_)
rstrip(s) ==
    IF s # <<>> /\ s[Len(s)] \in Whitespace
    THEN rstrip(SubSeq(s, 1, Len(s) - 1))
    ELSE s

\* str.strip(): without its leading and trailing whitespace.
strip(s) == rstrip(lstrip(s))

\* str.split(d): the segments between the occurrences of d, empty ones kept.
RECURSIVE split(_, _)
split(s, d) ==
    IF \E i \in 1..Len(s) : s[i] = d
    THEN LET i == CHOOSE k \in 1..Len(s) :
                      s[k] = d /\ \A j \in 1..(k - 1) : s[j] # d
         IN  <<SubSeq(s, 1, i - 1)>> \o split(SubSeq(s, i + 1, Len(s)), d)
    ELSE <<s>>

(***************************************************************************)
(* parse_delimited_list.  list(set(...)) fixes no order, so the operator   *)
(* is the set of the lists the call may return.                            *)
(***************************************************************************)
\* list(set(S)): every duplicate-free enumeration of S.
ListsOf(S) ==
    {l \in [1..Cardinality(S) -> S] : \A i, j \in DOMAIN l : l[i] = l[j] => i = j}

\* Mutant: the segments are not trimmed.
parse_delimited_list_nostrip(liststr) ==
    IF liststr = None \/ Len(liststr.s) = 0 \/ isspace(liststr.s)
    THEN {<<>>}
    ELSE LET segs == split(liststr.s, ";")
             kept == {i \in DOMAIN segs : Len(segs[i]) > 0 /\ ~isspace(segs[i])}
         IN  ListsOf({[kind |-> liststr.kind, s |-> segs[i]] : i \in kept})

parse_delimited_list(liststr) ==
    IF liststr = None \/ Len(liststr.s) = 0 \/ isspace(liststr.s)
    THEN {<<>>}
    ELSE LET segs == split(liststr.s, ";")
             kept == {i \in DOMAIN segs : Len(segs[i]) > 0 /\ ~isspace(segs[i])}
         IN  ListsOf({[kind |-> liststr.kind, s |-> strip(segs[i])] : i \in kept})

(***************************************************************************)
(* The caller of parse_delimited_list.                                     *)
(***************************************************************************)
ListChars == {"a", "A", ";", " ", "\t"}

TextsUpTo(chars, n) == UNION {[1..k -> chars] : k \in 0..n}

ParseInputs == {None} \cup {PyStr(s) : s \in TextsUpTo(ListChars, MaxLen)}

InitParse ==
    /\ orig \in ParseInputs
    /\ prev = orig
    /\ cur = orig
    /\ hist = <<>>

ParseDelimitedList ==
    /\ hist = <<>>
    /\ \E l \in parse_delimited_list(cur) : cur' = PyList(l)
    /\ prev' = cur
    /\ hist' = <<"parse_delimited_list">>
    /\ UNCHANGED orig

NextParse == ParseDelimitedList

SpecParse == InitParse /\ [][NextParse]_vars

(***************************************************************************)
(* C3.  What the claim says the result holds, stated on the positions of   *)
(* the raw text and not through split and strip: the stretch a..b is an    *)
(* item when it lies in a maximal stretch i..j free of ';', begins and     *)
(* ends with a character that is not whitespace, and is surrounded inside  *)
(* i..j by whitespace only.                                                *)
(***************************************************************************)
IsSegment(s, i, j) ==
    /\ i = 1 \/ s[i - 1] = ";"
    /\ j = Len(s) \/ s[j + 1] = ";"
    /\ \A k \in i..j : s[k] # ";"

IsItemAt(s, a, b) ==
    /\ a <= b
    /\ s[a] \notin Whitespace
    /\ s[b] \notin Whitespace
    /\ \E i \in 1..a, j \in b..Len(s) :
          /\ IsSegment(s, i, j)
          /\ \A k \in (i..(a - 1)) \cup ((b + 1)..j) : s[k] \in Whitespace

ItemsByPosition(s) ==
    {SubSeq(s, ab[1], ab[2]) :
        ab \in {p \in (1..Len(s)) \X (1..Len(s)) : IsItemAt(s, p[1], p[2])}}

\* C3: parse_delimited_list(s) holds exactly the distinct trimmed non-blank
\* segments of s between ';': each element is a non-empty text with no
\* leading or trailing whitespace, no element appears twice, every such
\* segment is an element, and None, '' and all-whitespace give the empty list.
C3_ParseExact ==
    hist = <<"parse_delimited_list">> =>
        LET l == cur.items IN
        /\ cur.kind = "list"
        /\ \A k \in DOMAIN l :
              /\ IsText(l[k])
              /\ Len(l[k].s) > 0
              /\ l[k].s[1] \notin Whitespace
              /\ l[k].s[Len(l[k].s)] \notin Whitespace
        /\ \A k1, k2 \in DOMAIN l : l[k1] = l[k2] => k1 = k2
        /\ prev = None => l = <<>>
        /\ prev # None =>
              /\ {l[k].s : k \in DOMAIN l} = ItemsByPosition(prev.s)
              /\ (Len(prev.s) = 0 \/ isspace(prev.s)) => l = <<>>

\* A raw text with a leading blank, a repeated item and a trailing delimiter
\* was parsed into its one item.
C3_Witness ==
    /\ hist = <<"parse_delimited_list">>
    /\ prev = PyStr(<<" ", "a", ";", "a">>)
    /\ cur = PyList(<<PyStr(<<"a">>)>>)

(***************************************************************************)
(* convert_boolean.                                                        *)
(***************************************************************************)
UpperChars == <<"A", "B", "D", "E", "F", "L", "N", "O", "R", "S", "T", "U", "Y">>
LowerChars == <<"a", "b", "d", "e", "f", "l", "n", "o", "r", "s", "t", "u", "y">>

\* str.lower(), over the letters the model uses.
lower(s) ==
    [i \in DOMAIN s |->
        IF \E k \in DOMAIN UpperChars : UpperChars[k] = s[i]
        THEN LowerChars[CHOOSE k \in DOMAIN UpperChars : UpperChars[k] = s[i]]
        ELSE s[i]]

\* One character of a byte string outside ASCII (the byte 0xE9).
NonAscii == {"0xE9"}

\* unicode(v): a unicode string is itself; a byte string is decoded with the
\* default codec, ascii, which raises on any byte outside ASCII.
unicode(v) ==
    IF v.kind = "str" /\ \E i \in DOMAIN v.s : v.s[i] \in NonAscii
    THEN Raise("UnicodeDecodeError")
    ELSE PyUnicode(v.s)

true_values ==
    {<<"t", "r", "u", "e">>, <<"t">>, <<"y", "e", "s">>, <<"y">>, <<"1">>}
false_values ==
    {<<"f", "a", "l", "s", "e">>, <<"f">>, <<"n", "o">>, <<"n">>, <<"0">>}

convert_boolean(boolVal) ==
    IF boolVal = None THEN None
    ELSE IF boolVal.kind = "bool" THEN boolVal
    ELSE IF boolVal.kind \in {"str", "unicode"} THEN
        IF Len(boolVal.s) = 0 \/ isspace(boolVal.s) THEN None
        ELSE LET u == unicode(boolVal) IN
             IF u.kind = "raise" THEN u
             ELSE LET t == lower(strip(u.s)) IN
                  IF t \in true_values THEN True
                  ELSE IF t \in false_values THEN False
                  ELSE None
    ELSE IF boolVal.kind = "int" THEN
        IF boolVal.n = 1 THEN True
        ELSE IF boolVal.n = 0 THEN False
        ELSE None
    ELSE IF boolVal.kind = "float" THEN
        IF boolVal.tenths = 10 THEN True
        ELSE IF boolVal.tenths = 0 THEN False
        ELSE None
    ELSE None

(***************************************************************************)
(* The caller of convert_boolean.                                          *)
(***************************************************************************)
BoolChars == {"t", "Y", "0", " ", "0xE9"}

BoolWords ==
    { <<"t", "r", "u", "e">>, <<" ", "T", "r", "u", "e", " ">>,
      <<"Y", "e", "s">>, <<"y">>, <<"1">>,
      <<"f", "a", "l", "s", "e">>, <<" ", "F", "a", "l", "s", "e", " ">>,
      <<"F">>, <<"N", "o">>, <<"N">>,
      <<"B", "A", "D">>, <<"o", "n">> }

BoolInputs ==
    {None, True, False, PyOther}
    \cup {PyInt(n) : n \in -1..2}
    \cup {PyFloat(t) : t \in {-10, 0, 5, 10, 20}}
    \cup {PyStr(s) : s \in TextsUpTo(BoolChars, MaxLen) \cup BoolWords}
    \cup {PyUnicode(s) : s \in TextsUpTo(BoolChars \ NonAscii, MaxLen) \cup BoolWords}

InitBool ==
    /\ orig \in BoolInputs
    /\ prev = orig
    /\ cur = orig
    /\ hist = <<>>

ConvertBoolean ==
    /\ hist = <<>>
    /\ cur' = convert_boolean(cur)
    /\ prev' = cur
    /\ hist' = <<"convert_boolean">>
    /\ UNCHANGED orig

NextBool == ConvertBoolean

SpecBool == InitBool /\ [][NextBool]_vars

(***************************************************************************)
(* C4.  The result the claim gives for each kind of input.                 *)
(***************************************************************************)
ClaimedBoolean(v) ==
    IF v = None THEN None
    ELSE IF v.kind = "bool" THEN v
    ELSE IF v.kind = "int" THEN
        IF v.n = 1 THEN True ELSE IF v.n = 0 THEN False ELSE None
    ELSE IF v.kind = "float" THEN
        IF v.tenths = 10 THEN True ELSE IF v.tenths = 0 THEN False ELSE None
    ELSE IF IsText(v) THEN
        IF lower(strip(v.s)) \in true_values THEN True
        ELSE IF lower(strip(v.s)) \in false_values THEN False
        ELSE None
    ELSE None

\* C4: convert_boolean never raises and returns one of True, False, None:
\* None for None, a boolean unchanged, True/False for the numbers 1/0 and None
\* for any other number, and for a text the membership of its trimmed,
\* lowercased form in the true set or the false set, None otherwise.
C4_TotalThreeValued ==
    hist = <<"convert_boolean">> =>
        /\ cur \in {True, False, None}
        /\ cur = ClaimedBoolean(prev)

(***************************************************************************)
(* RadRecord and rad_record.  A record is a function from the field names  *)
(* to values; RadRecord, the named tuple's constructor, takes the values   *)
(* by position.                                                            *)
(***************************************************************************)
\* The fields of the named tuple, in its order.
Fields ==
    << "name", "organization", "description", "address", "street", "city",
       "state", "country", "zipcode", "email", "phone", "fax", "url",
       "source", "category_name", "category_names", "population_names",
       "population_tags", "procedure_type", "hours", "npi", "visible",
       "notes", "date_verified" >>

FieldNames == Range(Fields)

IsRecord(v) == DOMAIN v = FieldNames

\* RadRecord(*args): the i-th value becomes the i-th field.
RadRecord(args) ==
    [f \in FieldNames |-> args[CHOOSE i \in DOMAIN Fields : Fields[i] = f]]

\* The optional parameters of rad_record.
OptionalParams == FieldNames \ {"name"}

\* The default of an optional parameter.
Default(p) == IF p = "visible" THEN True ELSE None

\* The value a parameter is bound to in a call with the named arguments kw.
Arg(kw, p) == IF p \in DOMAIN kw THEN kw[p] ELSE Default(p)

\* Mutant: the values are passed to RadRecord in the order of the signature,
\* zipcode before country.
rad_record_signature_order(name, kw) ==
    IF ~(DOMAIN kw \subseteq OptionalParams) THEN Raise("TypeError")
    ELSE RadRecord(
        << name, Arg(kw, "organization"), Arg(kw, "description"),
           Arg(kw, "address"), Arg(kw, "street"), Arg(kw, "city"),
           Arg(kw, "state"), Arg(kw, "zipcode"), Arg(kw, "country"),
           Arg(kw, "email"), Arg(kw, "phone"), Arg(kw, "fax"), Arg(kw, "url"),
           Arg(kw, "source"), Arg(kw, "category_name"), Arg(kw, "category_names"),
           Arg(kw, "population_names"), Arg(kw, "population_tags"),
           Arg(kw, "procedure_type"),
           Arg(kw, "hours"), Arg(kw, "npi"), Arg(kw, "visible"), Arg(kw, "notes"),
           Arg(kw, "date_verified") >>)

\* rad_record(name, **kw): a named argument that is no parameter is a
\* TypeError; otherwise the values go to RadRecord by position.
rad_record(name, kw) ==
    IF ~(DOMAIN kw \subseteq OptionalParams) THEN Raise("TypeError")
    ELSE RadRecord(
        << name, Arg(kw, "organization"), Arg(kw, "description"),
           Arg(kw, "address"), Arg(kw, "street"), Arg(kw, "city"),
           Arg(kw, "state"), Arg(kw, "country"), Arg(kw, "zipcode"),
           Arg(kw, "email"), Arg(kw, "phone"), Arg(kw, "fax"), Arg(kw, "url"),
           Arg(kw, "source"), Arg(kw, "category_name"), Arg(kw, "category_names"),
           Arg(kw, "population_names"), Arg(kw, "population_tags"),
           Arg(kw, "procedure_type"),
           Arg(kw, "hours"), Arg(kw, "npi"), Arg(kw, "visible"), Arg(kw, "notes"),
           Arg(kw, "date_verified") >>)

(***************************************************************************)
(* The caller of rad_record: a name and at most MaxArgs named arguments,   *)
(* the names taken among the parameters and the flag fields the test       *)
(* test_normalize_record passes.                                           *)
(***************************************************************************)
ExtensionFields ==
    {"is_icath", "is_wpath", "sliding_scale", "wheelchair_accessible"}

CtorNames == {None, PyStr(<<"V">>)}

CtorValues == {None, PyStr(<<"x">>), False}

\* The subsets of S of at most n elements.
RECURSIVE SubsetsUpTo(_, _)
SubsetsUpTo(S, n) ==
    IF n = 0 THEN {{}}
    ELSE LET r == SubsetsUpTo(S, n - 1)
         IN  r \cup {x \cup {e} : x \in r, e \in S}

CtorKwargs ==
    UNION {[d -> CtorValues] :
        d \in SubsetsUpTo(OptionalParams \cup ExtensionFields, MaxArgs)}

InitCtor ==
    /\ orig \in {[name |-> n, kw |-> kw] : n \in CtorNames, kw \in CtorKwargs}
    /\ prev = orig
    /\ cur = orig
    /\ hist = <<>>

Construct ==
    /\ hist = <<>>
    /\ cur' = rad_record(cur.name, cur.kw)
    /\ prev' = cur
    /\ hist' = <<"rad_record">>
    /\ UNCHANGED orig

NextCtor == Construct

SpecCtor == InitCtor /\ [][NextCtor]_vars

\* C8: rad_record, called with any name and any subset of its optional named
\* arguments, returns a record in which every field holds the value passed
\* under that field's name (zipcode and country included), every omitted
\* field is None and an omitted visible is True.
C8_FieldsByName ==
    (hist = <<"rad_record">> /\ DOMAIN prev.kw \subseteq OptionalParams) =>
        /\ IsRecord(cur)
        /\ cur.name = prev.name
        /\ \A f \in OptionalParams :
              /\ f \in DOMAIN prev.kw => cur[f] = prev.kw[f]
              /\ f \notin DOMAIN prev.kw =>
                    cur[f] = (IF f = "visible" THEN True ELSE None)

\* A record was built with a None name, a zipcode and a country.
C8_Witness ==
    /\ hist = <<"rad_record">>
    /\ prev.name = None
    /\ DOMAIN prev.kw = {"zipcode", "country"}
    /\ prev.kw["zipcode"] # prev.kw["country"]
    /\ IsRecord(cur)

(***************************************************************************)
(* is_valid.  datetime.strptime(text, '%Y-%m-%d') compiles the format to   *)
(* the regular expression                                                  *)
(*   (?P<Y>\d\d\d\d)-(?P<m>1[0-2]|0[1-9]|[1-9])-                           *)
(*   (?P<d>3[0-1]|[1-2]\d|0[1-9]|[1-9]| [1-9])                             *)
(* matches it at the start of the text, raises ValueError when it does not *)
(* match or when text remains after the match, and then builds the date,   *)
(* which raises ValueError for a year below 1 or a day the month lacks.    *)
(***************************************************************************)
DigitChars == <<"0", "1", "2", "3", "4", "5", "6", "7", "8", "9">>
Digits == Range(DigitChars)
NonZeroDigits == Digits \ {"0"}

\* int() of one digit.
DigitVal(c) == (CHOOSE i \in DOMAIN DigitChars : DigitChars[i] = c) - 1

\* int() of a text of digits, leading blanks skipped.
RECURSIVE IntOf(_)
IntOf(s) ==
    IF s = <<>> THEN 0
    ELSE IF Head(s) = " " THEN IntOf(Tail(s))
    ELSE 10 * IntOf(SubSeq(s, 1, Len(s) - 1)) + DigitVal(s[Len(s)])

IsLeap(y) == (y % 4 = 0 /\ y % 100 # 0) \/ y % 400 = 0

DaysInMonth(y, m) ==
    IF m = 2 THEN (IF IsLeap(y) THEN 29 ELSE 28)
    ELSE IF m \in {4, 6, 9, 11} THEN 30
    ELSE 31

\* The characters %m takes at position p, given that '-' must follow: 0 if none.
MonthLen(s, p) ==
    IF /\ Len(s) >= p + 2
       /\ \/ s[p] = "1" /\ s[p + 1] \in {"0", "1", "2"}
          \/ s[p] = "0" /\ s[p + 1] \in NonZeroDigits
       /\ s[p + 2] = "-"
    THEN 2
    ELSE IF Len(s) >= p + 1 /\ s[p] \in NonZeroDigits /\ s[p + 1] = "-"
    THEN 1
    ELSE 0

\* The characters %d takes at position p: 0 if none.
DayLen(s, p) ==
    IF /\ Len(s) >= p + 1
       /\ \/ s[p] = "3" /\ s[p + 1] \in {"0", "1"}
          \/ s[p] \in {"1", "2"} /\ s[p + 1] \in Digits
          \/ s[p] = "0" /\ s[p + 1] \in NonZeroDigits
    THEN 2
    ELSE IF Len(s) >= p /\ s[p] \in NonZeroDigits
    THEN 1
    ELSE IF Len(s) >= p + 1 /\ s[p] = " " /\ s[p + 1] \in NonZeroDigits
    THEN 2
    ELSE 0

\* TRUE when datetime.strptime(s, '%Y-%m-%d') returns, FALSE when it raises
\* ValueError.
strptime(s) ==
    /\ Len(s) >= 5
    /\ \A i \in 1..4 : s[i] \in Digits
    /\ s[5] = "-"
    /\ MonthLen(s, 6) > 0
    /\ LET dpos == 6 + MonthLen(s, 6) + 1
           year == IntOf(SubSeq(s, 1, 4))
           month == IntOf(SubSeq(s, 6, 5 + MonthLen(s, 6)))
       IN  /\ DayLen(s, dpos) > 0
           /\ dpos + DayLen(s, dpos) - 1 = Len(s)
           /\ year >= 1
           /\ IntOf(SubSeq(s, dpos, Len(s))) \in 1..DaysInMonth(year, month)

\* Mutant: a name of whitespace only passes.
is_valid_no_isspace(record) ==
    IF record.name = None \/ Len(record.name.s) = 0
    THEN False
    ELSE IF /\ record.date_verified # None
            /\ Len(record.date_verified.s) > 0
            /\ ~isspace(record.date_verified.s)
            /\ ~strptime(record.date_verified.s)
    THEN False
    ELSE True

is_valid(record) ==
    IF record.name = None \/ Len(record.name.s) = 0 \/ isspace(record.name.s)
    THEN False
    ELSE IF /\ record.date_verified # None
            /\ Len(record.date_verified.s) > 0
            /\ ~isspace(record.date_verified.s)
            /\ ~strptime(record.date_verified.s)
    THEN False
    ELSE True

(***************************************************************************)
(* The caller of is_valid: a record built by rad_record from a name, a     *)
(* date_verified and possibly one more field.                              *)
(***************************************************************************)
ValidNames ==
    {None, PyStr(<<>>), PyStr(<<" ", "\t", " ">>), PyStr(<<"V">>),
     PyStr(<<" ", "V", " ">>)}

DateYears == {<<"2", "0", "1", "5">>, <<"2", "0", "1", "6">>,
              <<"0", "0", "0", "0">>, <<"9", "9">>}
DateMonths == {<<"0", "8">>, <<"8">>, <<"0", "2">>, <<"2">>, <<"1", "3">>,
               <<"0", "0">>}
DateDays == {<<"2", "7">>, <<"7">>, <<"2", "9">>, <<"3", "0">>, <<"3", "1">>,
             <<"3", "2">>, <<" ", "7">>, <<"0", "0">>}
DateSeps == {<<"-">>, <<"/">>}
DatePads == {<<>>, <<" ">>}

DateTexts ==
    {pre \o y \o sep \o m \o sep \o d \o post :
        pre \in DatePads, y \in DateYears, sep \in DateSeps, m \in DateMonths,
        d \in DateDays, post \in DatePads}
    \cup {<<>>, <<" ", " ">>, <<"9", "/", "9", "/", "9", "9">>}

DateInputs == {None} \cup {PyStr(s) : s \in DateTexts}

\* Named arguments besides date_verified.
OtherKwargs ==
    { <<>>,
      [f \in {"notes"} |-> PyStr(<<"9", "/", "9", "/", "9", "9">>)],
      [f \in {"category_names", "visible"} |->
          IF f = "visible" THEN None ELSE PyList(<<PyStr(<<"A">>)>>)] }

ValidInputs ==
    {rad_record(n, [f \in {"date_verified"} |-> d] @@ o) :
        n \in ValidNames, d \in DateInputs, o \in OtherKwargs}

InitValid ==
    /\ orig \in ValidInputs
    /\ prev = orig
    /\ cur = orig
    /\ hist = <<>>

IsValid ==
    /\ hist = <<>>
    /\ cur' = is_valid(cur)
    /\ prev' = cur
    /\ hist' = <<"is_valid">>
    /\ UNCHANGED orig

NextValid == IsValid

SpecValid == InitValid /\ [][NextValid]_vars

\* A name that is absent, empty or whitespace only, stated on its characters.
BlankName(n) == n = None \/ \A i \in DOMAIN n.s : n.s[i] \in Whitespace

\* C1: is_valid is false whenever the name is None, empty or whitespace only,
\* whatever the other fields hold, and true whenever the name is none of these
\* and date_verified is None.
C1_NameDecides ==
    hist = <<"is_valid">> =>
        /\ BlankName(prev.name) => cur = False
        /\ (~BlankName(prev.name) /\ prev.date_verified = None) => cur = True

\* is_valid refused a whitespace-only name on a record whose date_verified is
\* well formed.
C1_Witness ==
    /\ hist = <<"is_valid">>
    /\ prev.name = PyStr(<<" ", "\t", " ">>)
    /\ prev.date_verified =
          PyStr(<<"2", "0", "1", "5", "-", "0", "8", "-", "2", "7">>)
    /\ cur = False

\* An exact YYYY-MM-DD text naming a real calendar date, stated on its
\* characters.
ExactYMD(s) ==
    /\ Len(s) = 10
    /\ \A i \in {1, 2, 3, 4, 6, 7, 9, 10} : s[i] \in Digits
    /\ s[5] = "-" /\ s[8] = "-"
    /\ LET y == IntOf(SubSeq(s, 1, 4))
           m == IntOf(SubSeq(s, 6, 7))
           d == IntOf(SubSeq(s, 9, 10))
       IN  y >= 1 /\ m \in 1..12 /\ d \in 1..DaysInMonth(y, m)

\* C2: with a valid name, is_valid is true when date_verified is None, empty
\* or whitespace only, and otherwise true exactly when date_verified is an
\* exact YYYY-MM-DD text (four-digit year, two-digit month, two-digit day) of
\* a real date; it returns a boolean and raises nothing.
C2_ExactDate ==
    (hist = <<"is_valid">> /\ ~BlankName(prev.name)) =>
        /\ cur \in {True, False}
        /\ IF \/ prev.date_verified = None
              \/ \A i \in DOMAIN prev.date_verified.s :
                    prev.date_verified.s[i] \in Whitespace
           THEN cur = True
           ELSE (cur = True) <=> ExactYMD(prev.date_verified.s)

(***************************************************************************)
(* convert_category_name, convert_population_names, normalize_record.      *)
(* Each is the set of the values the call may return: the order of a list  *)
(* built by parse_delimited_list is not fixed.                             *)
(***************************************************************************)
\* len() of a list or of a text.
PyLen(v) == IF v.kind = "list" THEN Len(v.items) ELSE Len(v.s)

\* record._replace(field=value)
replace(record, field, value) == [record EXCEPT ![field] = value]

\* Mutant: the raw field is consumed and category_names is derived again even
\* when it is populated.
convert_category_name_consuming(record) ==
    IF record = None THEN {record}
    ELSE {replace(replace(record, "category_names", PyList(l)),
                  "category_name", None) :
             l \in parse_delimited_list(record.category_name)}

\* Mutant: a record with no raw category_name is returned as it is.
convert_category_name_skip_none(record) ==
    IF record = None THEN {record}
    ELSE IF record.category_names # None /\ PyLen(record.category_names) > 0
    THEN {record}
    ELSE IF record.category_name = None THEN {record}
    ELSE {replace(record, "category_names", PyList(l)) :
             l \in parse_delimited_list(record.category_name)}

\* Mutant: the guard on category_names is missing.
convert_category_name_unguarded(record) ==
    IF record = None THEN {record}
    ELSE {replace(record, "category_names", PyList(l)) :
             l \in parse_delimited_list(record.category_name)}

convert_category_name(record) ==
    IF record = None THEN {record}
    ELSE IF record.category_names # None /\ PyLen(record.category_names) > 0
    THEN {record}
    ELSE {replace(record, "category_names", PyList(l)) :
             l \in parse_delimited_list(record.category_name)}

\* Mutant: the result is stored in category_names.
convert_population_names_wrong_field(record) ==
    IF record = None THEN {record}
    ELSE IF record.population_tags # None /\ PyLen(record.population_tags) > 0
    THEN {record}
    ELSE {replace(record, "category_names", PyList(l)) :
             l \in parse_delimited_list(record.population_names)}

convert_population_names(record) ==
    IF record = None THEN {record}
    ELSE IF record.population_tags # None /\ PyLen(record.population_tags) > 0
    THEN {record}
    ELSE {replace(record, "population_tags", PyList(l)) :
             l \in parse_delimited_list(record.population_names)}

normalize_record(record) ==
    IF record = None THEN {None}
    ELSE UNION {convert_population_names(r) : r \in convert_category_name(record)}

(***************************************************************************)
(* The caller of the conversions: None, or a record built by rad_record,   *)
(* on which it chains at most MaxOps conversions, each applied to the      *)
(* result of the one before.                                               *)
(***************************************************************************)
NormNames == {None, PyStr(<<"V">>)}
NormDates == {None, PyStr(<<"9", "/", "9", "/", "9", "9">>)}
NormCategoryName ==
    {None, PyStr(<<>>), PyStr(<<" ">>), PyStr(<<";">>), PyStr(<<"A">>),
     PyStr(<<"A", ";", "B">>), PyStr(<<" ", "A", " ", ";", "A", ";">>)}
NormCategoryNames ==
    {None, PyList(<<>>), PyList(<<PyStr(<<"A">>)>>),
     PyList(<<PyStr(<<"C">>), PyStr(<<"D">>)>>)}
NormPopulationNames ==
    {None, PyStr(<<";", ";">>), PyStr(<<"P", ";", " ", "Q">>)}
NormPopulationTags == {None, PyList(<<>>), PyList(<<PyStr(<<"T">>)>>)}
\* visible: omitted, None, or a raw text.
NormVisible ==
    {<<>>, [f \in {"visible"} |-> None], [f \in {"visible"} |-> PyStr(<<"n", "o">>)]}

NormKwargs ==
    {[f \in {"date_verified", "category_name", "category_names",
             "population_names", "population_tags"} |->
        CASE f = "date_verified" -> dv
          [] f = "category_name" -> cn
          [] f = "category_names" -> cns
          [] f = "population_names" -> pn
          [] f = "population_tags" -> pt] @@ vis :
        dv \in NormDates, cn \in NormCategoryName, cns \in NormCategoryNames,
        pn \in NormPopulationNames, pt \in NormPopulationTags, vis \in NormVisible}

NormInputs == {None} \cup {rad_record(n, kw) : n \in NormNames, kw \in NormKwargs}

InitNorm ==
    /\ orig \in NormInputs
    /\ prev = orig
    /\ cur = orig
    /\ hist = <<>>

ConvertCategoryName ==
    /\ Len(hist) < MaxOps
    /\ cur' \in convert_category_name(cur)
    /\ prev' = cur
    /\ hist' = Append(hist, "convert_category_name")
    /\ UNCHANGED orig

ConvertPopulationNames ==
    /\ Len(hist) < MaxOps
    /\ cur' \in convert_population_names(cur)
    /\ prev' = cur
    /\ hist' = Append(hist, "convert_population_names")
    /\ UNCHANGED orig

NormalizeRecord ==
    /\ Len(hist) < MaxOps
    /\ cur' \in normalize_record(cur)
    /\ prev' = cur
    /\ hist' = Append(hist, "normalize_record")
    /\ UNCHANGED orig

NextNorm == ConvertCategoryName \/ ConvertPopulationNames \/ NormalizeRecord

SpecNorm == InitNorm /\ [][NextNorm]_vars

(***************************************************************************)
(* Helpers of the claims on the conversions.                               *)
(***************************************************************************)
LastCall == IF hist = <<>> THEN "none" ELSE hist[Len(hist)]

\* A derived field that is populated: a list (or text) with an element.
Populated(v) == v # None /\ PyLen(v) > 0

\* Two field values, lists compared as sets.
SameValue(a, b) ==
    IF a.kind = "list" /\ b.kind = "list"
    THEN Range(a.items) = Range(b.items)
    ELSE a = b

\* Two results field by field, lists compared as sets.
SameRecord(a, b) ==
    IF IsRecord(a) /\ IsRecord(b)
    THEN \A f \in FieldNames : SameValue(a[f], b[f])
    ELSE a = b

\* What the claims say of a conversion from the raw field to the derived one.
Converts(raw, derived) ==
    /\ Populated(prev[derived]) => cur = prev
    /\ ~Populated(prev[derived]) =>
          /\ IsRecord(cur)
          /\ cur[derived].kind = "list"
          /\ cur[derived].items \in parse_delimited_list(prev[raw])
          /\ \A f \in FieldNames \ {derived} : cur[f] = prev[f]

\* C5: on a record r, convert_category_name returns r unchanged when
\* r.category_names is populated, and otherwise a record whose category_names
\* is parse_delimited_list(r.category_name) and whose other fields are those
\* of r; convert_population_names does the same from population_names to
\* population_tags; the record passed is not modified.
C5_ConversionFrame ==
    /\ (LastCall = "convert_category_name" /\ prev # None) =>
          Converts("category_name", "category_names")
    /\ (LastCall = "convert_population_names" /\ prev # None) =>
          Converts("population_names", "population_tags")
    /\ (Len(hist) = 1 /\ LastCall # "normalize_record") => prev = orig

\* convert_category_name derived two names on a record whose population_tags
\* were populated, and left a populated category_names alone on another.
C5_Witness ==
    /\ LastCall = "convert_category_name"
    /\ IsRecord(prev)
    /\ prev.category_names = PyList(<<>>)
    /\ prev.population_tags = PyList(<<PyStr(<<"T">>)>>)
    /\ cur.category_names = PyList(<<PyStr(<<"B">>), PyStr(<<"A">>)>>)

\* C6: after normalize_record, visible is convert_boolean of its raw value,
\* with None replaced by False, so it is never None.
C6_VisibleCoerced ==
    (LastCall = "normalize_record" /\ IsRecord(prev)) =>
        /\ cur.visible # None
        /\ cur.visible =
              (IF convert_boolean(prev.visible) = None
               THEN False
               ELSE convert_boolean(prev.visible))

\* C7: normalize_record applied to the result of normalize_record returns
\* that result, field by field, the derived lists compared as sets.
C7_Idempotent ==
    (Len(hist) >= 2 /\ hist[Len(hist)] = "normalize_record"
                    /\ hist[Len(hist) - 1] = "normalize_record") =>
        SameRecord(cur, prev)

\* A record with raw lists and no derived lists was normalized twice.
C7_Witness ==
    /\ hist = <<"normalize_record", "normalize_record">>
    /\ IsRecord(orig)
    /\ orig.category_names = None
    /\ orig.population_tags = None
    /\ Len(cur.category_names.items) = 2
    /\ Len(cur.population_tags.items) = 2

\* C9 as stated: the three conversions return None for None, and a record
\* whose raw field is None gets the empty list as its derived field.
C9_NoneRawGivesEmpty ==
    /\ (LastCall # "none" /\ prev = None) => cur = None
    /\ (LastCall = "convert_category_name" /\ IsRecord(prev)
            /\ prev.category_name = None) =>
          cur.category_names = PyList(<<>>)
    /\ (LastCall = "convert_population_names" /\ IsRecord(prev)
            /\ prev.population_names = None) =>
          cur.population_tags = PyList(<<>>)

\* C9 amended: the three conversions return None for None, and a record
\* whose raw field is None and whose derived field is None or empty gets the
\* empty list as its derived field.
C9_NoneRawUnpopulatedGivesEmpty ==
    /\ (LastCall # "none" /\ prev = None) => cur = None
    /\ (LastCall = "convert_category_name" /\ IsRecord(prev)
            /\ prev.category_name = None /\ ~Populated(prev.category_names)) =>
          cur.category_names = PyList(<<>>)
    /\ (LastCall = "convert_population_names" /\ IsRecord(prev)
            /\ prev.population_names = None /\ ~Populated(prev.population_tags)) =>
          cur.population_tags = PyList(<<>>)

\* convert_category_name gave the empty list to a record that had neither a
\* raw category_name nor category_names.
C9_Witness ==
    /\ LastCall = "convert_category_name"
    /\ IsRecord(prev)
    /\ prev.category_name = None
    /\ prev.category_names = None
    /\ cur.category_names = PyList(<<>>)

\* convert_category_name then convert_population_names, and the other order.
CategoryThenPopulation(r) ==
    UNION {convert_population_names(x) : x \in convert_category_name(r)}
PopulationThenCategory(r) ==
    UNION {convert_category_name(x) : x \in convert_population_names(r)}

\* C10: normalize_record keeps name, date_verified, category_name and
\* population_names, hence the verdict of is_valid; and the two list
\* conversions give the same record in either order, lists compared as sets.
C10_ValidityAndOrder ==
    /\ (LastCall = "normalize_record" /\ IsRecord(prev)) =>
          /\ IsRecord(cur)
          /\ \A f \in {"name", "date_verified", "category_name", "population_names"} :
                cur[f] = prev[f]
          /\ is_valid(cur) = is_valid(prev)
    /\ hist = <<"convert_category_name", "convert_population_names">> =>
          \A b \in PopulationThenCategory(orig) : SameRecord(cur, b)
    /\ hist = <<"convert_population_names", "convert_category_name">> =>
          \A a \in CategoryThenPopulation(orig) : SameRecord(cur, a)

\* Both list conversions derived a list, category first.
C10_Witness ==
    /\ hist = <<"convert_category_name", "convert_population_names">>
    /\ IsRecord(orig)
    /\ ~Populated(orig.category_names)
    /\ ~Populated(orig.population_tags)
    /\ Len(cur.category_names.items) = 2
    /\ Len(cur.population_tags.items) = 2

====
